---------------------------- MODULE Spec2Model ----------------------------
(***************************************************************************)
(* Model of src/rng/backends/curand/curand_helper.hpp: the two error       *)
(* translators (curand_error, cuda_error), the CUDA_CALL / CURAND_CALL     *)
(* macros, and the transform kernels (range_transform_fp,                  *)
(* range_transform_fp_accurate, range_transform_int,                       *)
(* sample_bernoulli_from_uniform), each in its buffer and its USM form.    *)
(***************************************************************************)
EXTENDS Integers, Sequences, FiniteSets, TLC

VARIABLES
    pc,        \* error machine: "idle", "continued" (macro fell through), "thrown", "caught"
    status,    \* error machine: the lvalue handed to CUDA_CALL / CURAND_CALL as err / status
    exc,       \* error machine: the exception object in flight (NoExc when none)
    ctor,      \* error machine: arguments of the constructor that built exc (history)
    native,    \* error machine: the native call the macro made last and what it returned (history)
    ncalls,    \* error machine: native invocations made by the macro expansion that ran last
    observed,  \* error machine: what a handler read through getErrorNumber() / what()
    host,      \* kernels: the calling thread: "idle", "waiting", "returned", "raised"
    call,      \* kernels: arguments of the transform call in progress (NoCall when none)
    mem,       \* kernels: device memory, [in |-> cells, out |-> cells]
    mem0,      \* kernels: mem as the caller supplied it (history)
    wi,        \* kernels: position of every work-item in the kernel lambda
    event      \* kernels: the cl::sycl::event of the submission

errVars == <<pc, status, exc, ctor, native, ncalls, observed>>
kerVars == <<host, call, mem, mem0, wi, event>>
vars == <<pc, status, exc, ctor, native, ncalls, observed, host, call, mem, mem0, wi, event>>

(***************************************************************************)
(* Bounds of the model.                                                    *)
(***************************************************************************)
\* status codes the native libraries may hand back: 0 .. MaxStatusCode
MaxStatusCode == 1000
\* width in bits of the machine word standing for std::uint32_t / std::int32_t
WordBits == 6
\* precision (significand bits) of the floating-point type T
MantBits == 3
\* number of fraction bits of 1.0: 1.0 is 2^FracBits units of the least subnormal
FracBits == 4
\* largest exponent: finite values are m * 2^k units, m < 2^MantBits, k <= MaxShift
MaxShift == 6
\* longest buffer a caller supplies
MaxLen == 3

(***************************************************************************)
(* Floating point (T = float or double), scaled down: a finite value is an *)
(* integer number of units (the least subnormal) with at most MantBits     *)
(* significant bits; arithmetic rounds to nearest, ties to even, overflows *)
(* to an infinity, and propagates NaN, as IEEE 754 binary formats do.      *)
(***************************************************************************)
One == 2^FracBits
MaxFinite == (2^MantBits - 1) * 2^MaxShift
PosInf == 2 * MaxFinite
NegInf == -PosInf
NaN == PosInf + 1

Abs(x) == IF x < 0 THEN -x ELSE x

RECURSIVE BitLen(_)
BitLen(n) == IF n = 0 THEN 0 ELSE 1 + BitLen(n \div 2)

\* the finite values of T
Representable(x) ==
    /\ Abs(x) <= MaxFinite
    /\ \E k \in 0..MaxShift : Abs(x) % (2^k) = 0 /\ Abs(x) \div (2^k) < 2^MantBits

IsNaN(x) == x = NaN
IsInf(x) == x = PosInf \/ x = NegInf
IsFinite(x) == ~IsNaN(x) /\ ~IsInf(x)

\* round the exact value N * 2^(-s) units to T: nearest, ties to even
RoundScaled(N, s) ==
    LET mag == Abs(N)
        len == BitLen(mag)
        q   == IF len - MantBits > s THEN 2^(len - MantBits) ELSE 2^s
        lo  == mag \div q
        rem == mag % q
        up  == (2 * rem > q) \/ (2 * rem = q /\ lo % 2 = 1)
        r   == ((IF up THEN lo + 1 ELSE lo) * q) \div (2^s)
    IN  IF r > MaxFinite THEN (IF N < 0 THEN NegInf ELSE PosInf)
        ELSE IF N < 0 THEN -r ELSE r

FNeg(x) == IF IsNaN(x) THEN NaN ELSE -x

\* x + y in T
FAdd(x, y) ==
    IF IsNaN(x) \/ IsNaN(y) THEN NaN
    ELSE IF IsInf(x) /\ IsInf(y) THEN (IF x = y THEN x ELSE NaN)
    ELSE IF IsInf(x) THEN x
    ELSE IF IsInf(y) THEN y
    ELSE RoundScaled(x + y, 0)

\* x - y in T
FSub(x, y) == FAdd(x, FNeg(y))

\* the exact product of two operands of which one at least is infinite
InfProduct(x, y) ==
    IF x = 0 \/ y = 0 THEN NaN
    ELSE IF (x < 0) = (y < 0) THEN PosInf ELSE NegInf

\* x * y in T
FMul(x, y) ==
    IF IsNaN(x) \/ IsNaN(y) THEN NaN
    ELSE IF IsInf(x) \/ IsInf(y) THEN InfProduct(x, y)
    ELSE RoundScaled(x * y, FracBits)

\* fma(x, y, z): x * y + z with one rounding
FFma(x, y, z) ==
    IF IsNaN(x) \/ IsNaN(y) \/ IsNaN(z) THEN NaN
    ELSE IF IsInf(x) \/ IsInf(y) THEN FAdd(InfProduct(x, y), z)
    ELSE IF IsInf(z) THEN z
    ELSE RoundScaled(x * y + z * One, FracBits)

\* x < y and x > y in T: false as soon as an operand is NaN
FLess(x, y) == ~IsNaN(x) /\ ~IsNaN(y) /\ x < y
FGreater(x, y) == FLess(y, x)


(***************************************************************************)
(* Error translators.  The enumerators' values are those of the vendor     *)
(* headers the file includes (curand.h, driver_types.h through cuda.h).    *)
(***************************************************************************)
curandStatus_t ==
    [ CURAND_STATUS_SUCCESS                   |-> 0,
      CURAND_STATUS_VERSION_MISMATCH          |-> 100,
      CURAND_STATUS_NOT_INITIALIZED           |-> 101,
      CURAND_STATUS_ALLOCATION_FAILED         |-> 102,
      CURAND_STATUS_TYPE_ERROR                |-> 103,
      CURAND_STATUS_OUT_OF_RANGE              |-> 104,
      CURAND_STATUS_LENGTH_NOT_MULTIPLE       |-> 105,
      CURAND_STATUS_DOUBLE_PRECISION_REQUIRED |-> 106,
      CURAND_STATUS_LAUNCH_FAILURE            |-> 201,
      CURAND_STATUS_PREEXISTING_FAILURE       |-> 202,
      CURAND_STATUS_INITIALIZATION_FAILED     |-> 203,
      CURAND_STATUS_ARCH_MISMATCH             |-> 204,
      CURAND_STATUS_INTERNAL_ERROR            |-> 999 ]

cudaError_t ==
    [ cudaSuccess                        |-> 0,
      cudaErrorInvalidValue              |-> 1,
      cudaErrorMemoryAllocation          |-> 2,
      cudaErrorInvalidDevice             |-> 101,
      cudaErrorIncompatibleDriverContext |-> 302,
      cudaErrorLaunchOutOfResources      |-> 701,
      cudaErrorNotPermitted              |-> 800 ]

\* every value a native call may return, recognized or not
StatusCodes == 0..MaxStatusCode

\* curand_error::curand_error_map: the switch, case by case
curand_error_map(error) ==
    CASE error = curandStatus_t.CURAND_STATUS_SUCCESS -> "CURAND_STATUS_SUCCESS"
      [] error = curandStatus_t.CURAND_STATUS_VERSION_MISMATCH -> "CURAND_STATUS_VERSION_MISMATCH"
      [] error = curandStatus_t.CURAND_STATUS_NOT_INITIALIZED -> "CURAND_STATUS_NOT_INITIALIZED"
      [] error = curandStatus_t.CURAND_STATUS_ALLOCATION_FAILED -> "CURAND_STATUS_ALLOCATION_FAILED"
      [] error = curandStatus_t.CURAND_STATUS_TYPE_ERROR -> "CURAND_STATUS_TYPE_ERROR"
      [] error = curandStatus_t.CURAND_STATUS_OUT_OF_RANGE -> "CURAND_STATUS_OUT_OF_RANGE"
      [] error = curandStatus_t.CURAND_STATUS_LENGTH_NOT_MULTIPLE -> "CURAND_STATUS_LENGTH_NOT_MULTIPLE"
      [] error = curandStatus_t.CURAND_STATUS_DOUBLE_PRECISION_REQUIRED ->
             "CURAND_STATUS_DOUBLE_PRECISION_REQUIRED"
      [] error = curandStatus_t.CURAND_STATUS_LAUNCH_FAILURE -> "CURAND_STATUS_LAUNCH_FAILURE"
      [] error = curandStatus_t.CURAND_STATUS_PREEXISTING_FAILURE -> "CURAND_STATUS_PREEXISTING_FAILURE"
      [] error = curandStatus_t.CURAND_STATUS_INITIALIZATION_FAILED ->
             "CURAND_STATUS_INITIALIZATION_FAILED"
      [] error = curandStatus_t.CURAND_STATUS_ARCH_MISMATCH -> "CURAND_STATUS_ARCH_MISMATCH"
      [] error = curandStatus_t.CURAND_STATUS_INTERNAL_ERROR -> "CURAND_STATUS_INTERNAL_ERROR"
      [] OTHER -> "<unknown>"

\* cuda_error_map with one case of the switch left out
cuda_error_map_nocase(error) ==
    CASE error = cudaError_t.cudaSuccess -> "cudaSuccess"
      [] error = cudaError_t.cudaErrorNotPermitted -> "cudaErrorNotPermitted"
      [] error = cudaError_t.cudaErrorIncompatibleDriverContext -> "cudaErrorIncompatibleDriverContext"
      [] error = cudaError_t.cudaErrorInvalidDevice -> "cudaErrorInvalidDevice"
      [] error = cudaError_t.cudaErrorInvalidValue -> "cudaErrorInvalidValue"
      [] error = cudaError_t.cudaErrorMemoryAllocation -> "cudaErrorMemoryAllocation"
      [] OTHER -> "<unknown>"

\* cuda_error::cuda_error_map: the switch, case by case
cuda_error_map(error) ==
    CASE error = cudaError_t.cudaSuccess -> "cudaSuccess"
      [] error = cudaError_t.cudaErrorNotPermitted -> "cudaErrorNotPermitted"
      [] error = cudaError_t.cudaErrorIncompatibleDriverContext -> "cudaErrorIncompatibleDriverContext"
      [] error = cudaError_t.cudaErrorInvalidDevice -> "cudaErrorInvalidDevice"
      [] error = cudaError_t.cudaErrorInvalidValue -> "cudaErrorInvalidValue"
      [] error = cudaError_t.cudaErrorMemoryAllocation -> "cudaErrorMemoryAllocation"
      [] error = cudaError_t.cudaErrorLaunchOutOfResources -> "cudaErrorLaunchOutOfResources"
      [] OTHER -> "<unknown>"

\* static_cast<int>(result): an enumeration value converted to a 32-bit int
static_cast_int(v) == IF v <= 2147483647 THEN v ELSE (v - 2147483647) - 2147483647 - 2

NoExc == [type |-> "none", what |-> "", error_number |-> 0]
NoCtor == [type |-> "none", message |-> "", result |-> 0, mapped |-> ""]
NoNative == [macro |-> "none", func |-> "", ret |-> 0]
NoObserved == [number |-> 0, what |-> ""]

\* curand_error's constructor storing the status only when it is a known one
curand_error_known_only(message, result) ==
    [ type         |-> "curand_error",
      what         |-> message \o curand_error_map(result),
      error_number |-> IF curand_error_map(result) = "<unknown>" THEN 0
                       ELSE static_cast_int(result) ]

\* curand_error::curand_error(message, result)
curand_error(message, result) ==
    [ type         |-> "curand_error",
      what         |-> message \o curand_error_map(result),
      error_number |-> static_cast_int(result) ]

\* cuda_error::cuda_error(message, error)
cuda_error(message, error) ==
    [ type         |-> "cuda_error",
      what         |-> message \o cuda_error_map(error),
      error_number |-> static_cast_int(error) ]

\* curand_error::getErrorNumber / cuda_error::getErrorNumber
getErrorNumber(e) == e.error_number

\* the names of the native functions the macros are applied to, and the
\* message prefixes callers construct errors with
NativeCurand == {"curandCreateGenerator", "curandGenerate"}
NativeCuda == {"cudaMalloc", "cudaFree"}
Messages == {"", "generate: ", "curandGenerate : "}

\* the host is not inside a transform call and no kernel is in flight
HostFree == host = "idle" /\ event = "none"

\* CURAND_CALL(func, status, ...), func returning ret
CURAND_CALL(func, ret) ==
    /\ pc = "idle" /\ HostFree
    /\ status' = ret
    /\ ncalls' = 1
    /\ native' = [macro |-> "CURAND_CALL", func |-> func, ret |-> ret]
    /\ IF ret # curandStatus_t.CURAND_STATUS_SUCCESS
       THEN /\ exc' = curand_error(func \o " : ", ret)
            /\ ctor' = [type |-> "curand_error", message |-> func \o " : ", result |-> ret,
                        mapped |-> curand_error_map(ret)]
            /\ pc' = "thrown"
       ELSE /\ exc' = NoExc
            /\ ctor' = NoCtor
            /\ pc' = "continued"
    /\ UNCHANGED <<observed, host, call, mem, mem0, wi, event>>

\* CUDA_CALL testing err > cudaErrorInvalidValue instead of err != cudaSuccess
CUDA_CALL_wrong_test(func, ret) ==
    /\ pc = "idle" /\ HostFree
    /\ status' = ret
    /\ ncalls' = 1
    /\ native' = [macro |-> "CUDA_CALL", func |-> func, ret |-> ret]
    /\ IF ret > cudaError_t.cudaErrorInvalidValue
       THEN /\ exc' = cuda_error(func \o " : ", ret)
            /\ ctor' = [type |-> "cuda_error", message |-> func \o " : ", result |-> ret,
                        mapped |-> cuda_error_map(ret)]
            /\ pc' = "thrown"
       ELSE /\ exc' = NoExc
            /\ ctor' = NoCtor
            /\ pc' = "continued"
    /\ UNCHANGED <<observed, host, call, mem, mem0, wi, event>>

\* CUDA_CALL(func, err, ...), func returning ret
CUDA_CALL(func, ret) ==
    /\ pc = "idle" /\ HostFree
    /\ status' = ret
    /\ ncalls' = 1
    /\ native' = [macro |-> "CUDA_CALL", func |-> func, ret |-> ret]
    /\ IF ret # cudaError_t.cudaSuccess
       THEN /\ exc' = cuda_error(func \o " : ", ret)
            /\ ctor' = [type |-> "cuda_error", message |-> func \o " : ", result |-> ret,
                        mapped |-> cuda_error_map(ret)]
            /\ pc' = "thrown"
       ELSE /\ exc' = NoExc
            /\ ctor' = NoCtor
            /\ pc' = "continued"
    /\ UNCHANGED <<observed, host, call, mem, mem0, wi, event>>

\* throw curand_error(message, result) written out by a caller
ThrowCurandError(message, result) ==
    /\ pc = "idle" /\ HostFree
    /\ exc' = curand_error(message, result)
    /\ ctor' = [type |-> "curand_error", message |-> message, result |-> result,
                mapped |-> curand_error_map(result)]
    /\ native' = NoNative
    /\ pc' = "thrown"
    /\ UNCHANGED <<status, ncalls, observed, host, call, mem, mem0, wi, event>>

\* throw cuda_error(message, error) written out by a caller
ThrowCudaError(message, error) ==
    /\ pc = "idle" /\ HostFree
    /\ exc' = cuda_error(message, error)
    /\ ctor' = [type |-> "cuda_error", message |-> message, result |-> error,
                mapped |-> cuda_error_map(error)]
    /\ native' = NoNative
    /\ pc' = "thrown"
    /\ UNCHANGED <<status, ncalls, observed, host, call, mem, mem0, wi, event>>

\* a handler catches the error and reads it: getErrorNumber(), what()
Catch ==
    /\ pc \in {"thrown", "caught"}
    /\ observed' = [number |-> getErrorNumber(exc), what |-> exc.what]
    /\ pc' = "caught"
    /\ UNCHANGED <<status, exc, ctor, native, ncalls, host, call, mem, mem0, wi, event>>

\* the handler ends (the exception object is destroyed), or the code after
\* the macro goes on
Resume ==
    /\ pc \in {"continued", "caught"}
    /\ pc' = "idle"
    /\ exc' = NoExc
    /\ ctor' = NoCtor
    /\ native' = NoNative
    /\ observed' = NoObserved
    /\ status' = 0
    /\ ncalls' = 0
    /\ UNCHANGED <<host, call, mem, mem0, wi, event>>


(***************************************************************************)
(* Machine words: std::uint32_t and std::int32_t, WordBits wide, two's     *)
(* complement, arithmetic modulo 2^WordBits.  Memory holds words; LoadT    *)
(* reads one as a value of type T.                                         *)
(***************************************************************************)
WordMod == 2^WordBits
MaxWord == WordMod - 1
MinInt == -(WordMod \div 2)
MaxInt == (WordMod \div 2) - 1
IntTypes == {"int32_t", "uint32_t"}

ToUnsigned(x) == x % WordMod
ToSigned(w) == IF w >= WordMod \div 2 THEN w - WordMod ELSE w
LoadT(T, w) == IF T = "int32_t" THEN ToSigned(w) ELSE w
ValuesOf(T) == IF T = "int32_t" THEN MinInt..MaxInt ELSE 0..MaxWord

\* a float cell read back after a word was stored over it: the words the
\* kernels store (0 and 1) are the bit patterns of +0.0 and of the least
\* subnormal, which are 0 and 1 units
FloatFromBits(w) == IF w < 2^MantBits THEN w ELSE NaN

(***************************************************************************)
(* The kernel lambdas, as functions of what a work-item reads.             *)
(***************************************************************************)
\* r[id] * (b - a) + a in T; the device compiler may contract the multiply
\* and the add into one fma (fused)
Rescale(v, a, b, fused) ==
    IF fused THEN FFma(v, FSub(b, a), a) ELSE FAdd(FMul(v, FSub(b, a)), a)

\* the range reduction with the remainder taken by b instead of b - a
RangeInt_mod_b(T, a, b, x) ==
    LET rem == IF ToUnsigned(b) = 0 THEN x ELSE x % ToUnsigned(b)
    IN  ToUnsigned(ToUnsigned(a) + rem)

\* a + in[id] % (b - a) as stored to out[id]: b - a is computed in T, the
\* remainder and the sum in unsigned (in[id] is std::uint32_t), and the sum
\* is converted to T by the store; the result is the word stored.  For
\* T = std::int32_t a difference beyond the signed maximum overflows int,
\* which the language leaves undefined; a and b reach the kernel as run-time
\* arguments and the subtraction is the machine's two's complement one, so
\* the wrapped difference is the one outcome a build produces
RangeInt(T, a, b, x) ==
    LET diff == IF T = "int32_t" THEN ToSigned(ToUnsigned(b - a)) ELSE ToUnsigned(b - a)
        rem  == x % ToUnsigned(diff)
    IN  ToUnsigned(ToUnsigned(a) + rem)

\* the comparison written <= instead of <
Bernoulli_le(v, p) == IF FLess(v, p) \/ (~IsNaN(v) /\ v = p) THEN 1 ELSE 0

\* in[id] < p as stored to out[id]: a bool converted to T
Bernoulli(v, p) == IF FLess(v, p) THEN 1 ELSE 0

NoCall ==
    [fn |-> "none", api |-> "none", T |-> "none", a |-> 0, b |-> 0, p |-> 0, n |-> 0,
     fused |-> FALSE, alias |-> FALSE]
EmptyMem == [r |-> <<>>, in |-> <<>>, out |-> <<>>]

\* the region the pointer out refers to: the caller may pass the region of in
OutRegion(c) == IF c.alias THEN "in" ELSE "out"

\* what out[] holds before the kernel writes it
Fill(len) == [i \in 1..len |-> MaxWord]

(***************************************************************************)
(* Submission.  queue.submit(...) enqueues the kernel over range<1>(n);    *)
(* the buffer variants then block in wait_and_throw(), the USM variants    *)
(* return the event.                                                       *)
(***************************************************************************)
\* a submission that hands the event back without wait_and_throw()
Submit_no_wait(c, m) ==
    /\ pc = "idle" /\ HostFree
    /\ call' = c
    /\ mem' = m
    /\ mem0' = m
    /\ wi' = [i \in 1..c.n |-> "start"]
    /\ event' = "submitted"
    /\ host' = "returned"
    /\ UNCHANGED errVars

Submit(c, m) ==
    /\ pc = "idle" /\ HostFree
    /\ call' = c
    /\ mem' = m
    /\ mem0' = m
    /\ wi' = [i \in 1..c.n |-> "start"]
    /\ event' = "submitted"
    /\ host' = IF c.api = "buffer" THEN "waiting" ELSE "returned"
    /\ UNCHANGED errVars

\* range_transform_fp(queue, a, b, n, cl::sycl::buffer<T, 1>& r)
range_transform_fp_buffer(a, b, n, r, fused) ==
    /\ FLess(a, b) /\ n <= Len(r)
    /\ Submit([NoCall EXCEPT !.fn = "range_transform_fp", !.api = "buffer",
                             !.a = a, !.b = b, !.n = n, !.fused = fused],
              [EmptyMem EXCEPT !.r = r])

\* range_transform_fp(queue, a, b, n, T* r)
range_transform_fp_usm(a, b, n, r, fused) ==
    /\ FLess(a, b) /\ n <= Len(r)
    /\ Submit([NoCall EXCEPT !.fn = "range_transform_fp", !.api = "usm",
                             !.a = a, !.b = b, !.n = n, !.fused = fused],
              [EmptyMem EXCEPT !.r = r])

\* range_transform_fp_accurate(queue, a, b, n, cl::sycl::buffer<T, 1>& r)
range_transform_fp_accurate_buffer(a, b, n, r, fused) ==
    /\ FLess(a, b) /\ n <= Len(r)
    /\ Submit([NoCall EXCEPT !.fn = "range_transform_fp_accurate", !.api = "buffer",
                             !.a = a, !.b = b, !.n = n, !.fused = fused],
              [EmptyMem EXCEPT !.r = r])

\* range_transform_fp_accurate(queue, a, b, n, T* r)
range_transform_fp_accurate_usm(a, b, n, r, fused) ==
    /\ FLess(a, b) /\ n <= Len(r)
    /\ Submit([NoCall EXCEPT !.fn = "range_transform_fp_accurate", !.api = "usm",
                             !.a = a, !.b = b, !.n = n, !.fused = fused],
              [EmptyMem EXCEPT !.r = r])

\* range_transform_int(queue, a, b, n, buffer<std::uint32_t, 1>& in, buffer<T, 1>& out)
range_transform_int_buffer(T, a, b, n, in) ==
    /\ a < b /\ n <= Len(in)
    /\ Submit([NoCall EXCEPT !.fn = "range_transform_int", !.api = "buffer", !.T = T,
                             !.a = a, !.b = b, !.n = n],
              [EmptyMem EXCEPT !.in = in, !.out = Fill(Len(in))])

\* range_transform_int(queue, a, b, n, std::uint32_t* in, T* out); alias: out == in
range_transform_int_usm(T, a, b, n, in, alias) ==
    /\ a < b /\ n <= Len(in)
    /\ Submit([NoCall EXCEPT !.fn = "range_transform_int", !.api = "usm", !.T = T,
                             !.a = a, !.b = b, !.n = n, !.alias = alias],
              [EmptyMem EXCEPT !.in = in, !.out = IF alias THEN <<>> ELSE Fill(Len(in))])

\* sample_bernoulli_from_uniform(queue, p, n, buffer<float, 1> in, buffer<T, 1>& out)
sample_bernoulli_from_uniform_buffer(T, p, n, in) ==
    /\ n <= Len(in)
    /\ Submit([NoCall EXCEPT !.fn = "sample_bernoulli_from_uniform", !.api = "buffer",
                             !.T = T, !.p = p, !.n = n],
              [EmptyMem EXCEPT !.in = in, !.out = Fill(Len(in))])

\* sample_bernoulli_from_uniform(queue, p, n, float* in, T* out); alias: out == in
sample_bernoulli_from_uniform_usm(T, p, n, in, alias) ==
    /\ n <= Len(in)
    /\ Submit([NoCall EXCEPT !.fn = "sample_bernoulli_from_uniform", !.api = "usm",
                             !.T = T, !.p = p, !.n = n, !.alias = alias],
              [EmptyMem EXCEPT !.in = in, !.out = IF alias THEN <<>> ELSE Fill(Len(in))])

(***************************************************************************)
(* The kernel lambda run to its end by work-item i on memory m.            *)
(***************************************************************************)
Lambda(c, m, i) ==
    CASE c.fn = "range_transform_fp" ->
             [m EXCEPT !.r[i] = Rescale(m.r[i], c.a, c.b, c.fused)]
      [] c.fn = "range_transform_fp_accurate" ->
             LET m1 == [m EXCEPT !.r[i] = Rescale(m.r[i], c.a, c.b, c.fused)]
             IN  IF FLess(m1.r[i], c.a) THEN [m1 EXCEPT !.r[i] = c.a]
                 ELSE IF FGreater(m1.r[i], c.b) THEN [m1 EXCEPT !.r[i] = c.b]
                 ELSE m1
      [] c.fn = "range_transform_int" ->
             [m EXCEPT ![OutRegion(c)][i] = RangeInt(c.T, c.a, c.b, m.in[i])]
      [] c.fn = "sample_bernoulli_from_uniform" ->
             IF c.alias
             THEN [m EXCEPT !.in[i] = FloatFromBits(Bernoulli(m.in[i], c.p))]
             ELSE [m EXCEPT !.out[i] = Bernoulli(m.in[i], c.p)]

(***************************************************************************)
(* Work-items.  The device runtime runs the lambda once for every id of    *)
(* range<1>(n), in any order and interleaved statement by statement.       *)
(***************************************************************************)
Running(i) == event = "submitted" /\ i \in 1..call.n

\* range_transform_fp: r[id] = r[id] * (b - a) + a
FpItem(i) ==
    /\ Running(i) /\ call.fn = "range_transform_fp" /\ wi[i] = "start"
    /\ mem' = Lambda(call, mem, i)
    /\ wi' = [wi EXCEPT ![i] = "done"]
    /\ UNCHANGED <<errVars, host, call, mem0, event>>

\* range_transform_fp_accurate: r[id] = r[id] * (b - a) + a;
AccRescale(i) ==
    /\ Running(i) /\ call.fn = "range_transform_fp_accurate" /\ wi[i] = "start"
    /\ mem' = [mem EXCEPT !.r[i] = Rescale(mem.r[i], call.a, call.b, call.fused)]
    /\ wi' = [wi EXCEPT ![i] = "rescaled"]
    /\ UNCHANGED <<errVars, host, call, mem0, event>>

\* range_transform_fp_accurate: if (r[id] < a) { r[id] = a; }
AccClampLow(i) ==
    /\ Running(i) /\ call.fn = "range_transform_fp_accurate" /\ wi[i] = "rescaled"
    /\ IF FLess(mem.r[i], call.a)
       THEN /\ mem' = [mem EXCEPT !.r[i] = call.a]
            /\ wi' = [wi EXCEPT ![i] = "done"]
       ELSE /\ mem' = mem
            /\ wi' = [wi EXCEPT ![i] = "else"]
    /\ UNCHANGED <<errVars, host, call, mem0, event>>

\* the upper clamp reading the element of the next work-item
AccClampHigh_neighbour(i) ==
    /\ Running(i) /\ call.fn = "range_transform_fp_accurate" /\ wi[i] = "else"
    /\ mem' = IF FGreater(mem.r[IF i < call.n THEN i + 1 ELSE i], call.b)
              THEN [mem EXCEPT !.r[i] = call.b] ELSE mem
    /\ wi' = [wi EXCEPT ![i] = "done"]
    /\ UNCHANGED <<errVars, host, call, mem0, event>>

\* the upper clamp left out
AccClampHigh_skipped(i) ==
    /\ Running(i) /\ call.fn = "range_transform_fp_accurate" /\ wi[i] = "else"
    /\ mem' = mem
    /\ wi' = [wi EXCEPT ![i] = "done"]
    /\ UNCHANGED <<errVars, host, call, mem0, event>>

\* range_transform_fp_accurate: else if (r[id] > b) { r[id] = b; }
AccClampHigh(i) ==
    /\ Running(i) /\ call.fn = "range_transform_fp_accurate" /\ wi[i] = "else"
    /\ mem' = IF FGreater(mem.r[i], call.b) THEN [mem EXCEPT !.r[i] = call.b] ELSE mem
    /\ wi' = [wi EXCEPT ![i] = "done"]
    /\ UNCHANGED <<errVars, host, call, mem0, event>>

\* range_transform_int: out[id] = a + in[id] % (b - a)
IntItem(i) ==
    /\ Running(i) /\ call.fn = "range_transform_int" /\ wi[i] = "start"
    /\ mem' = Lambda(call, mem, i)
    /\ wi' = [wi EXCEPT ![i] = "done"]
    /\ UNCHANGED <<errVars, host, call, mem0, event>>

\* sample_bernoulli_from_uniform: out[id] = in[id] < p
BernoulliItem(i) ==
    /\ Running(i) /\ call.fn = "sample_bernoulli_from_uniform" /\ wi[i] = "start"
    /\ mem' = Lambda(call, mem, i)
    /\ wi' = [wi EXCEPT ![i] = "done"]
    /\ UNCHANGED <<errVars, host, call, mem0, event>>

\* every work-item has run: the event completes
KernelComplete ==
    /\ event = "submitted"
    /\ \A i \in 1..call.n : wi[i] = "done"
    /\ event' = "complete"
    /\ UNCHANGED <<errVars, host, call, mem, mem0, wi>>

\* the device faults while the kernel is in flight
DeviceFault ==
    /\ event = "submitted"
    /\ event' = "failed"
    /\ UNCHANGED <<errVars, host, call, mem, mem0, wi>>

\* wait_and_throw() of a buffer variant returns: the kernel completed
WaitReturn ==
    /\ host = "waiting" /\ event = "complete"
    /\ host' = "returned"
    /\ UNCHANGED <<errVars, call, mem, mem0, wi, event>>

\* wait_and_throw() of a buffer variant throws: the kernel faulted
WaitThrow ==
    /\ host = "waiting" /\ event = "failed"
    /\ host' = "raised"
    /\ UNCHANGED <<errVars, call, mem, mem0, wi, event>>

\* the caller is done with the call and its buffers
Release ==
    /\ host \in {"returned", "raised"} /\ event \in {"complete", "failed"}
    /\ host' = "idle"
    /\ call' = NoCall
    /\ mem' = EmptyMem
    /\ mem0' = EmptyMem
    /\ wi' = <<>>
    /\ event' = "none"
    /\ UNCHANGED errVars

(***************************************************************************)
(* The inputs the model draws.                                             *)
(***************************************************************************)
\* the values of T in [0, 1): what the generator leaves in the buffer
Uniform01 == {x \in 0..(One - 1) : Representable(x)}
\* single values handed to the floating-point kernels: [0, 1) and beyond
FpValues == Uniform01 \cup {-One, One, 2 * One, NaN, PosInf, NegInf}
\* range bounds handed to the floating-point kernels: finite values of T
FpBounds ==
    {x \in {-MaxFinite, -(5 * One) \div 4, -One, 0, 1, One \div 2, One, (5 * One) \div 4,
            2 * One, 10 * One, MaxFinite} : Representable(x)}
\* 0.0, 0.25, 0.5, ... as far as the longest buffer goes
FpRamp == [i \in 1..MaxLen |-> (i - 1) * (One \div 4)]
\* -2.0, 0.0, 2.0, ...: values either clamp of the accurate kernel acts on
FpSpread == [i \in 1..MaxLen |-> (i - 2) * 2 * One]
FpBuffers == {<<v>> : v \in FpValues} \cup {FpRamp, FpSpread}

IntBounds(T) ==
    IF T = "int32_t" THEN {MinInt, -1, 0, 10, 20, MaxInt} ELSE {0, 10, 20, MaxWord}
IntBuffers ==
    {<<x>> : x \in 0..MaxWord}
        \cup {b \in {<<5, 17, 33>>, <<MaxWord, 0>>} : Len(b) <= MaxLen}

\* probabilities: the values of T in [0, 1]
Probabilities == {x \in 0..One : Representable(x)}
BernoulliBuffers ==
    {<<v>> : v \in Uniform01 \cup {One, NaN}}
        \cup {b \in {<<One \div 8, One \div 2, One \div 4>>} : Len(b) <= MaxLen}

Init ==
    /\ pc = "idle"
    /\ status = 0
    /\ exc = NoExc
    /\ ctor = NoCtor
    /\ native = NoNative
    /\ ncalls = 0
    /\ observed = NoObserved
    /\ host = "idle"
    /\ call = NoCall
    /\ mem = EmptyMem
    /\ mem0 = EmptyMem
    /\ wi = <<>>
    /\ event = "none"

\* the calling thread is sequential: it starts a native call, a throw or a
\* transform only when it is in none of them
Idle == pc = "idle" /\ HostFree

Next ==
    \/ Idle /\ \E f \in NativeCurand, ret \in StatusCodes : CURAND_CALL(f, ret)
    \/ Idle /\ \E f \in NativeCuda, ret \in StatusCodes : CUDA_CALL(f, ret)
    \/ Idle /\ \E m \in Messages, s \in StatusCodes : ThrowCurandError(m, s)
    \/ Idle /\ \E m \in Messages, s \in StatusCodes : ThrowCudaError(m, s)
    \/ Catch
    \/ Resume
    \/ Idle /\ \E a \in FpBounds, b \in FpBounds, r \in FpBuffers, n \in 0..MaxLen, fused \in BOOLEAN :
                  range_transform_fp_buffer(a, b, n, r, fused)
    \/ Idle /\ \E a \in FpBounds, b \in FpBounds, r \in FpBuffers, n \in 0..MaxLen, fused \in BOOLEAN :
                  range_transform_fp_usm(a, b, n, r, fused)
    \/ Idle /\ \E a \in FpBounds, b \in FpBounds, r \in FpBuffers, n \in 0..MaxLen, fused \in BOOLEAN :
                  range_transform_fp_accurate_buffer(a, b, n, r, fused)
    \/ Idle /\ \E a \in FpBounds, b \in FpBounds, r \in FpBuffers, n \in 0..MaxLen, fused \in BOOLEAN :
                  range_transform_fp_accurate_usm(a, b, n, r, fused)
    \/ Idle /\ \E T \in IntTypes, in \in IntBuffers, n \in 0..MaxLen :
                  \E a \in IntBounds(T), b \in IntBounds(T) :
                      range_transform_int_buffer(T, a, b, n, in)
    \/ Idle /\ \E T \in IntTypes, in \in IntBuffers, n \in 0..MaxLen, alias \in BOOLEAN :
                  \E a \in IntBounds(T), b \in IntBounds(T) :
                      range_transform_int_usm(T, a, b, n, in, alias)
    \/ Idle /\ \E T \in IntTypes, p \in Probabilities, in \in BernoulliBuffers, n \in 0..MaxLen :
                  sample_bernoulli_from_uniform_buffer(T, p, n, in)
    \/ Idle /\ \E T \in IntTypes, p \in Probabilities, in \in BernoulliBuffers, n \in 0..MaxLen,
                  alias \in BOOLEAN :
                  sample_bernoulli_from_uniform_usm(T, p, n, in, alias)
    \/ \E i \in 1..MaxLen : FpItem(i)
    \/ \E i \in 1..MaxLen : AccRescale(i)
    \/ \E i \in 1..MaxLen : AccClampLow(i)
    \/ \E i \in 1..MaxLen : AccClampHigh(i)
    \/ \E i \in 1..MaxLen : IntItem(i)
    \/ \E i \in 1..MaxLen : BernoulliItem(i)
    \/ KernelComplete
    \/ DeviceFault
    \/ WaitReturn
    \/ WaitThrow
    \/ Release

Spec == Init /\ [][Next]_vars


(***************************************************************************)
(* Properties.                                                             *)
(***************************************************************************)
\* the name an enumeration documents for value v, "<unknown>" when it has none
DocumentedName(enum, v) ==
    IF \E k \in DOMAIN enum : enum[k] = v
    THEN CHOOSE k \in DOMAIN enum : enum[k] = v
    ELSE "<unknown>"

EnumOf(type) == IF type = "curand_error" THEN curandStatus_t ELSE cudaError_t

\* C1: in both families every status value maps to a non-empty string: a
\* recognized status to its own enumerator name, any other to "<unknown>".
C1_StatusNames ==
    ctor.type # "none" =>
        /\ ctor.mapped = DocumentedName(EnumOf(ctor.type), ctor.result)
        /\ Len(ctor.mapped) > 0
        /\ (ctor.mapped = "<unknown>") =
               (\A k \in DOMAIN EnumOf(ctor.type) : EnumOf(ctor.type)[k] # ctor.result)

\* a status cuda_error_map does not list (it is curand's version mismatch) was
\* mapped to the fallback
C1_Witness ==
    /\ ctor.type = "cuda_error"
    /\ ctor.result = curandStatus_t.CURAND_STATUS_VERSION_MISMATCH
    /\ ctor.mapped = "<unknown>"

\* C2: an error built from message m and status s reports s through
\* getErrorNumber(), its message is m followed by the mapped name of s, and
\* the object does not change between its construction and its destruction.
C2_ErrorObject ==
    /\ [](exc.type # "none" =>
            /\ exc.type = ctor.type
            /\ getErrorNumber(exc) = ctor.result
            /\ exc.what = ctor.message \o DocumentedName(EnumOf(ctor.type), ctor.result)
            /\ (pc = "caught" => observed = [number |-> ctor.result, what |-> exc.what]))
    /\ [][exc.type # "none" /\ exc'.type # "none" => exc' = exc]_vars

\* a handler read the number of an error built by hand from an unrecognized status
C2_Witness ==
    /\ pc = "caught"
    /\ exc.type = "curand_error"
    /\ ctor.message = "generate: "
    /\ ctor.result = MaxStatusCode
    /\ observed = [number |-> MaxStatusCode, what |-> "generate: <unknown>"]

\* the success value of the macro's status family
SuccessOf(macro) ==
    IF macro = "CURAND_CALL" THEN curandStatus_t.CURAND_STATUS_SUCCESS ELSE cudaError_t.cudaSuccess

\* C3: CUDA_CALL / CURAND_CALL raise iff the returned status is not the success
\* value; the error raised is "<function name> : <mapped status name>" with the
\* status as its number; the native function is called once; the status
\* variable holds what it returned.
C3_MacroRaisesIffFailure ==
    native.macro # "none" =>
        /\ status = native.ret
        /\ ncalls = 1
        /\ (pc \in {"thrown", "caught"}) = (native.ret # SuccessOf(native.macro))
        /\ (pc = "continued") = (native.ret = SuccessOf(native.macro))
        /\ pc = "continued" => exc = NoExc
        /\ pc \in {"thrown", "caught"} =>
              /\ exc.type = (IF native.macro = "CURAND_CALL" THEN "curand_error" ELSE "cuda_error")
              /\ exc.what = native.func \o " : "
                                \o DocumentedName(EnumOf(exc.type), native.ret)
              /\ getErrorNumber(exc) = native.ret

\* cudaMalloc failed under CUDA_CALL and the error was raised
C3_Witness ==
    /\ pc = "thrown"
    /\ native = [macro |-> "CUDA_CALL", func |-> "cudaMalloc",
                 ret |-> cudaError_t.cudaErrorInvalidValue]
    /\ status = cudaError_t.cudaErrorInvalidValue
    /\ exc = [type |-> "cuda_error", what |-> "cudaMalloc : cudaErrorInvalidValue",
              error_number |-> cudaError_t.cudaErrorInvalidValue]


\* the kernel run sequentially, in index order, from work-item k on
RECURSIVE SeqExec(_, _, _)
SeqExec(c, m, k) == IF k > c.n THEN m ELSE SeqExec(c, Lambda(c, m, k), k + 1)

\* work-item i ran the lambda to its end
Done(i) == i \in 1..call.n /\ wi[i] = "done"

\* out[i] as the kernel left it, read as a value of type T
OutValue(i) == LoadT(call.T, mem[OutRegion(call)][i])

\* every input the caller supplied lies in [0, 1)
InputsUniform == \A i \in 1..call.n : mem0.r[i] \in Uniform01

\* a <= x <= b and a <= x < b in T
InClosed(x, a, b) == ~IsNaN(x) /\ a <= x /\ x <= b
InHalfOpen(x, a, b) == ~IsNaN(x) /\ a <= x /\ x < b

\* C4: range_transform_int leaves out[i] = a + (in[i] mod (b - a)), which lies
\* in [a, b), for both types T, negative a and b - a beyond the signed maximum;
\* raw inputs [5, 17, 33] with a = 10, b = 20 give [15, 17, 13].
C4_IntRange ==
    call.fn = "range_transform_int" =>
        /\ \A i \in 1..call.n : Done(i) =>
              /\ OutValue(i) = call.a + (mem0.in[i] % (call.b - call.a))
              /\ call.a <= OutValue(i) /\ OutValue(i) < call.b
              /\ OutValue(i) \in ValuesOf(call.T)
        /\ (event = "complete" /\ call.n = 3 /\ mem0.in = <<5, 17, 33>>
                /\ call.a = 10 /\ call.b = 20) =>
              <<OutValue(1), OutValue(2), OutValue(3)>> = <<15, 17, 13>>

\* the scenario ran to completion on signed outputs
C4_Witness ==
    /\ call.fn = "range_transform_int" /\ call.T = "int32_t" /\ event = "complete"
    /\ call.n = 3 /\ mem0.in = <<5, 17, 33>> /\ call.a = 10 /\ call.b = 20
    /\ <<OutValue(1), OutValue(2), OutValue(3)>> = <<15, 17, 13>>

\* C5: range_transform_fp_accurate leaves every element in [a, b): for inputs
\* in [0, 1) the output is never b.
C5_StrictContainment ==
    (call.fn = "range_transform_fp_accurate" /\ InputsUniform) =>
        \A i \in 1..call.n : Done(i) => InHalfOpen(mem.r[i], call.a, call.b)

\* an input in [0, 1) left the accurate kernel as b itself
C5_Witness ==
    /\ call.fn = "range_transform_fp_accurate" /\ InputsUniform /\ call.n = 1 /\ Done(1)
    /\ call.a < call.b /\ IsFinite(FSub(call.b, call.a))
    /\ mem.r[1] = call.b

\* the value the accurate kernel must leave for input v: the rescaled value
\* clamped to the nearest bound
Clamped(v, a, b, fused) ==
    LET x == Rescale(v, a, b, fused)
    IN  IF ~IsNaN(x) /\ x < a THEN a ELSE IF ~IsNaN(x) /\ x > b THEN b ELSE x

C7_HalfOpenRange ==
    (call.fn = "range_transform_fp" /\ InputsUniform) =>
        \A i \in 1..call.n : Done(i) =>
            /\ mem.r[i] = Rescale(mem0.r[i], call.a, call.b, call.fused)
            /\ InHalfOpen(mem.r[i], call.a, call.b)

\* what range_transform_fp does keep: v is replaced by v * (b - a) + a rounded
\* to T; for inputs in [0, 1) and b - a not overflowing the result lies in
\* [a, b], b included; a = 0, b = 10 sends 0.0, 0.25, 0.5 to 0.0, 2.5, 5.0.
C7_ClosedRange ==
    (call.fn = "range_transform_fp" /\ InputsUniform) =>
        \A i \in 1..call.n : Done(i) =>
            /\ mem.r[i] = Rescale(mem0.r[i], call.a, call.b, call.fused)
            /\ IsFinite(FSub(call.b, call.a)) => InClosed(mem.r[i], call.a, call.b)
            /\ (call.a = 0 /\ call.b = 10 * One) =>
                  /\ mem0.r[i] = 0 => mem.r[i] = 0
                  /\ mem0.r[i] = One \div 4 => mem.r[i] = (5 * One) \div 2
                  /\ mem0.r[i] = One \div 2 => mem.r[i] = 5 * One

\* an input in [0, 1) was rescaled to exactly b
C7_Witness ==
    /\ call.fn = "range_transform_fp" /\ InputsUniform /\ call.n = 1 /\ Done(1)
    /\ call.a < call.b /\ IsFinite(FSub(call.b, call.a))
    /\ mem.r[1] = call.b

\* C8 as stated: sample_bernoulli_from_uniform writes 1 where in[i] < p and 0
\* elsewhere, and leaves the input buffer unchanged.
C8_BernoulliInputKept ==
    call.fn = "sample_bernoulli_from_uniform" =>
        /\ \A i \in 1..call.n : Done(i) =>
              /\ OutValue(i) \in {0, 1}
              /\ (OutValue(i) = 1) = (~IsNaN(mem0.in[i]) /\ mem0.in[i] < call.p)
        /\ mem.in = mem0.in

\* C8 amended: sample_bernoulli_from_uniform writes 1 where in[i] < p and 0
\* elsewhere (0 for an input equal to p, all 0 for p = 0); the input buffer is
\* left unchanged when out is another region than in, and is overwritten by the
\* outputs when out is the region of in.
C8_BernoulliInputKeptUnlessAliased ==
    call.fn = "sample_bernoulli_from_uniform" =>
        /\ \A i \in 1..call.n : Done(i) =>
              /\ OutValue(i) \in {0, 1}
              /\ (OutValue(i) = 1) = (~IsNaN(mem0.in[i]) /\ mem0.in[i] < call.p)
              /\ mem0.in[i] = call.p => OutValue(i) = 0
              /\ call.p = 0 => OutValue(i) = 0
        /\ ~call.alias => mem.in = mem0.in
        /\ call.alias => \A i \in 1..Len(mem0.in) :
                            mem.in[i] = IF Done(i) THEN FloatFromBits(OutValue(i)) ELSE mem0.in[i]
        /\ (event = "complete" /\ call.n = 3 /\ call.p = (5 * One) \div 16
                /\ mem0.in = <<One \div 8, One \div 2, One \div 4>>) =>
              <<OutValue(1), OutValue(2), OutValue(3)>> = <<1, 0, 1>>

\* the scenario (inputs below, above, below p) ran to completion into a
\* separate output region
C8_Witness ==
    /\ call.fn = "sample_bernoulli_from_uniform" /\ ~call.alias /\ event = "complete"
    /\ call.n = 3 /\ call.p = (5 * One) \div 16
    /\ mem0.in = <<One \div 8, One \div 2, One \div 4>>
    /\ mem.in = mem0.in
    /\ mem.out = <<1, 0, 1>>

\* every one of the first n elements holds its transformed value
AllTransformed == mem = SeqExec(call, mem0, 1)

\* C9: a buffer variant returns only once the kernel has completed on all n
\* work-items, or raises the device fault instead; a USM variant returns the
\* event without waiting, and once the event is complete all n elements are
\* transformed.
C9_SubmissionModes ==
    call.fn # "none" =>
        /\ (call.api = "buffer" /\ host = "returned") => (event = "complete" /\ AllTransformed)
        /\ (call.api = "buffer" /\ event = "submitted") => host = "waiting"
        /\ host = "raised" => (call.api = "buffer" /\ event = "failed")
        /\ call.api = "usm" => host = "returned"
        /\ event = "complete" => (AllTransformed /\ \A i \in 1..call.n : wi[i] = "done")

\* a USM variant has returned while only the last element is transformed
C9_Witness ==
    /\ call.api = "usm" /\ host = "returned" /\ event = "submitted"
    /\ call.n = MaxLen
    /\ wi[call.n] = "done"
    /\ \A i \in 1..(call.n - 1) : wi[i] = "start" /\ mem.r[i] = mem0.r[i]
    /\ mem.r[call.n] # mem0.r[call.n]

\* the cells a work-item of the call in progress may write
Written(c) == IF c.fn \in {"range_transform_fp", "range_transform_fp_accurate"} THEN "r"
              ELSE OutRegion(c)

\* C10: work-item i reads slot i and writes slot i only, slots from n on are
\* never written, and whatever the order and interleaving of the work-items
\* the buffers end as sequential execution in index order leaves them, for
\* out disjoint from in and for out the region of in.
C10_OrderIndependence ==
    call.fn # "none" =>
        /\ \A reg \in {"r", "in", "out"} : \A i \in 1..Len(mem0[reg]) :
              \/ mem[reg][i] = mem0[reg][i]
              \/ reg = Written(call) /\ i <= call.n /\ wi[i] # "start"
        /\ \A i \in 1..call.n : Done(i) =>
              mem[Written(call)][i] = SeqExec(call, mem0, 1)[Written(call)][i]
        /\ event = "complete" => mem = SeqExec(call, mem0, 1)

\* the accurate kernel caught out of index order and between two statements:
\* work-item 1 not started, the last one past its rescaling, n = MaxLen
C10_Witness ==
    /\ call.fn = "range_transform_fp_accurate" /\ call.api = "usm" /\ call.n = MaxLen
    /\ wi[1] = "start"
    /\ wi[call.n] = "else"
    /\ mem.r[call.n] # mem0.r[call.n]

=============================================================================
